---- MODULE Spec2Model ----
(***************************************************************************)
(* The synchronisation loop of src/App.tsx: the React state of App, the    *)
(* "sync and polling" effect, syncAndPoll and the user handlers.           *)
(*                                                                         *)
(* One action is one JavaScript task: a user handler, a timer callback or  *)
(* the continuation of an awaited collaborator call, together with the     *)
(* render it causes and the effect that render re-runs (state updates made *)
(* in one task are batched).                                               *)
(*                                                                         *)
(* JavaScript strings that the code inspects (trim, +, join) are sequences *)
(* of one-character strings; an optional value is <<>> or <<v>>.           *)
(***************************************************************************)
EXTENDS Integers, Sequences, FiniteSets, Bags, TLC

VARIABLES clients, selectedClientId, fileSearchApiKey, isGoogleDriveConnected,
          isSyncing, syncError, pollingIntervalRef, timers, cycles,
          event, everConnected, lastSyncFailure

vars == <<clients, selectedClientId, fileSearchApiKey, isGoogleDriveConnected,
          isSyncing, syncError, pollingIntervalRef, timers, cycles,
          event, everConnected, lastSyncFailure>>

(* ------------------------------ bounds -------------------------------- *)

\* clients that handleAddClient may create
MaxClients == 2
\* syncAndPoll invocations that may be suspended at an await at once
MaxCycles == 2
\* files in one listing, where change detection is checked on its own
MaxFiles == 2

(* ------------------------------ values -------------------------------- *)

\* useState<string | null>(null)
Null == "null"
NoClient == 0

\* what the Drive collaborator may list (RemoteFile{id, content})
FileX == [id |-> <<"a">>, content |-> <<"b", "c">>]
Snapshots == {<<>>, <<FileX>>}

\* what a collaborator call may throw: an Error or some other value
Failures == {[isError |-> TRUE, message |-> "quota exceeded"],
             [isError |-> FALSE, message |-> "boom"]}
NoFailure == [isError |-> FALSE, message |-> ""]

Names == {<<"n">>, <<" ">>}
ApiKeys == {<<" ">>, <<"k">>}
FolderUrls == {<<"u">>}
FinalStatuses == {"indexed", "error"}

(* --------------------------- pure functions --------------------------- *)

RECURSIVE TrimStart(_)
TrimStart(s) == IF s # <<>> /\ Head(s) = " " THEN TrimStart(Tail(s)) ELSE s

RECURSIVE TrimEnd(_)
TrimEnd(s) == IF s # <<>> /\ s[Len(s)] = " "
              THEN TrimEnd(SubSeq(s, 1, Len(s) - 1)) ELSE s

\* String.prototype.trim
Trim(s) == TrimEnd(TrimStart(s))

\* files.map(f => f.id + f.content).join('')
RECURSIVE Fingerprint(_)
Fingerprint(files) ==
    IF files = <<>> THEN <<>>
    ELSE Head(files).id \o Head(files).content \o Fingerprint(Tail(files))

\* currentContent !== newContent
ChangeDetected(stored, driveFiles) == Fingerprint(stored) # Fingerprint(driveFiles)

\* driveFiles.map(df => ({...df, summary: '...', status: 'syncing'}))
Placeholder(driveFiles) ==
    [i \in 1..Len(driveFiles) |->
        [id |-> driveFiles[i].id, content |-> driveFiles[i].content,
         summary |-> "...", status |-> "syncing"]]

\* the sequence fileSearchService.syncClientFiles resolves to
IndexResult(driveFiles, st) ==
    [i \in 1..Len(driveFiles) |->
        [id |-> driveFiles[i].id, content |-> driveFiles[i].content,
         summary |-> "summary", status |-> st[i]]]

IndexResults(driveFiles) ==
    {IndexResult(driveFiles, st) : st \in [1..Len(driveFiles) -> FinalStatuses]}

\* the catch block without its instanceof test
ErrorMessage_AlwaysMessage(e) == e.message

\* error instanceof Error ? error.message : "An unknown error occurred during sync."
ErrorMessage(e) ==
    IF e.isError THEN e.message ELSE "An unknown error occurred during sync."

\* a map that replaces the files of every client, without the id test
SetFiles_EveryClient(cs, id, files) ==
    [i \in 1..Len(cs) |-> [cs[i] EXCEPT !.files = files]]

\* prev.map(c => c.id === id ? { ...c, files } : c)
SetFiles(cs, id, files) ==
    [i \in 1..Len(cs) |-> IF cs[i].id = id THEN [cs[i] EXCEPT !.files = files] ELSE cs[i]]

\* prev.map(c => c.id === clientId ? { ...c, googleDriveFolderUrl: url } : c)
SetFolderUrl(cs, id, url) ==
    [i \in 1..Len(cs) |->
        IF cs[i].id = id THEN [cs[i] EXCEPT !.googleDriveFolderUrl = <<url>>] ELSE cs[i]]

\* clients.find(c => c.id === selectedClientId), as an optional
SelectedClient(cs, id) ==
    IF \E i \in 1..Len(cs) : cs[i].id = id
    THEN <<cs[CHOOSE i \in 1..Len(cs) :
                  cs[i].id = id /\ \A j \in 1..(i - 1) : cs[j].id # id]>>
    ELSE <<>>

\* a folder reference that is neither null nor ''
HasFolder(c) == c.googleDriveFolderUrl # <<>> /\ c.googleDriveFolderUrl[1] # <<>>

\* the guard without its isGoogleDriveConnected test
Activated_IgnoresConnectivity(cl) ==
    /\ cl.selectedClient # <<>>
    /\ HasFolder(cl.selectedClient[1])
    /\ Trim(cl.fileSearchApiKey) # <<>>

\* the negation of syncAndPoll's first condition, on the values it closed over
Activated(cl) ==
    /\ cl.selectedClient # <<>>
    /\ HasFolder(cl.selectedClient[1])
    /\ cl.isGoogleDriveConnected
    /\ Trim(cl.fileSearchApiKey) # <<>>

(* ----------------------- the state as one record ---------------------- *)

State ==
    [clients |-> clients, selectedClientId |-> selectedClientId,
     fileSearchApiKey |-> fileSearchApiKey,
     isGoogleDriveConnected |-> isGoogleDriveConnected,
     isSyncing |-> isSyncing, syncError |-> syncError,
     pollingIntervalRef |-> pollingIntervalRef, timers |-> timers,
     cycles |-> cycles, drive |-> FALSE, index |-> FALSE, base |-> <<>>,
     seq |-> 0]

\* the values one render's syncAndPoll closes over
Closure(s) ==
    [selectedClient |-> SelectedClient(s.clients, s.selectedClientId),
     isGoogleDriveConnected |-> s.isGoogleDriveConnected,
     fileSearchApiKey |-> s.fileSearchApiKey]

\* a syncAndPoll invocation suspended at getFilesFromFolder: of the
\* selectedClient it closed over, the id and the files are read afterwards
\* (the files at line 75, the id at lines 81, 87 and 90). seq is history:
\* the rank of its listing among the invocations suspended at syncClientFiles,
\* oldest first, 0 while it has no listing yet.
Cycle(c) ==
    [id |-> c.id, files |-> c.files, pc |-> "awaitFetch", driveFiles |-> <<>>,
     seq |-> 0]

\* syncAndPoll up to its first await
SyncAndPoll(s, cl) ==
    IF ~Activated(cl)
    THEN [s EXCEPT !.isSyncing = FALSE]
    ELSE [s EXCEPT !.isSyncing = TRUE,
                   !.syncError = Null,
                   !.drive = TRUE,
                   !.cycles = @ (+) SetToBag({Cycle(cl.selectedClient[1])})]

\* An interval id stands for the callback it was armed with; the id of a
\* cleared interval, which the code leaves in the ref, is ClearedTimer.
ClearedTimer ==
    [selectedClient |-> <<>>, isGoogleDriveConnected |-> FALSE, fileSearchApiKey |-> <<>>]

\* clearInterval(pollingIntervalRef.current) when the ref is set
ClearPolling(s) ==
    IF s.pollingIntervalRef # <<>>
    THEN [s EXCEPT !.timers = @ \ {s.pollingIntervalRef[1]},
                   !.pollingIntervalRef = <<ClearedTimer>>]
    ELSE s

\* an effect with no cleanup and no clearInterval before it arms the interval
RunEffect_NoCleanup(s) ==
    LET cl == Closure(s)
    IN  IF cl.selectedClient # <<>> /\ HasFolder(cl.selectedClient[1])
        THEN [SyncAndPoll(s, cl) EXCEPT !.timers = @ \cup {cl},
                                        !.pollingIntervalRef = <<cl>>]
        ELSE s

\* the sync-and-polling effect: the previous run's cleanup, then the body
RunEffect(s) ==
    LET cleaned == ClearPolling(ClearPolling(s))
        cl == Closure(cleaned)
    IN  IF cl.selectedClient # <<>> /\ HasFolder(cl.selectedClient[1])
        THEN [SyncAndPoll(cleaned, cl) EXCEPT !.timers = @ \cup {cl},
                                              !.pollingIntervalRef = <<cl>>]
        ELSE cleaned

\* a render whose dependency list names the selected id rather than the
\* selected client object, so a write to its files does not re-run the effect
Render_IgnoresWrites(s, written) ==
    IF \/ s.selectedClientId # selectedClientId
       \/ s.isGoogleDriveConnected # isGoogleDriveConnected
       \/ s.fileSearchApiKey # fileSearchApiKey
    THEN RunEffect(s)
    ELSE s

\* the render after a task: the effect re-runs when a dependency changed
\* (written: a setClients call replaced the selected client's object)
Render(s, written) ==
    IF \/ written
       \/ s.selectedClientId # selectedClientId
       \/ s.isGoogleDriveConnected # isGoogleDriveConnected
       \/ s.fileSearchApiKey # fileSearchApiKey
    THEN RunEffect(s)
    ELSE s

\* the files of the client with this id
FilesOf(cs, id) == SelectedClient(cs, id)[1].files

\* What the last task was and did: the cycle's client id (cid), the snapshot
\* it fetched (snap), the files it closed over (base), the rank of its listing
\* (seq), what it caught (err), and whether the task called the Drive listing
\* (drive) or the index sync (index).
Event(op, cid, snap, err, s) ==
    [op |-> op, cid |-> cid, snap |-> snap, err |-> err,
     drive |-> s.drive, index |-> s.index, base |-> s.base, seq |-> s.seq]

Apply(s, ev) ==
    /\ BagCardinality(s.cycles) <= MaxCycles
    /\ clients' = s.clients
    /\ selectedClientId' = s.selectedClientId
    /\ fileSearchApiKey' = s.fileSearchApiKey
    /\ isGoogleDriveConnected' = s.isGoogleDriveConnected
    /\ isSyncing' = s.isSyncing
    /\ syncError' = s.syncError
    /\ pollingIntervalRef' = s.pollingIntervalRef
    /\ timers' = s.timers
    /\ cycles' = s.cycles
    /\ event' = ev
    /\ everConnected' = (everConnected \/ s.isGoogleDriveConnected)
    /\ lastSyncFailure' =
          IF ev.op = "syncFail"
          THEN <<[cid |-> ev.cid, files |-> FilesOf(s.clients, ev.cid),
                  snap |-> ev.snap, before |-> ev.base]>>
          ELSE IF /\ ev.op = "syncOk"
                  /\ lastSyncFailure # <<>>
                  /\ lastSyncFailure[1].cid = ev.cid
               THEN <<>>
               ELSE lastSyncFailure

\* the number of invocations suspended at syncClientFiles
Listed(cs) ==
    LET S == {c \in BagToSet(cs) : c.pc = "awaitSync"}
    IN  BagCardinality([c \in S |-> cs[c]])

\* the invocation c has returned; the listings fetched after c's move up a rank
Finished(cs, c) ==
    LET rest == cs (-) SetToBag({c})
        Moved(d) == IF d.seq > c.seq THEN [d EXCEPT !.seq = @ - 1] ELSE d
    IN  IF c.pc = "awaitSync"
        THEN [x \in {Moved(d) : d \in BagToSet(rest)} |->
                 rest[CHOOSE d \in BagToSet(rest) : Moved(d) = x]]
        ELSE rest

(* ------------------------------- Init --------------------------------- *)

Init ==
    /\ clients = <<>>
    /\ selectedClientId = NoClient
    /\ fileSearchApiKey = <<>>
    /\ isGoogleDriveConnected = FALSE
    /\ isSyncing = FALSE
    /\ syncError = Null
    /\ pollingIntervalRef = <<>>
    /\ timers = {}
    /\ cycles = EmptyBag
    /\ event = [op |-> "init", cid |-> NoClient, snap |-> <<>>, err |-> NoFailure,
                drive |-> FALSE, index |-> FALSE, base |-> <<>>,
                seq |-> 0]
    /\ everConnected = FALSE
    /\ lastSyncFailure = <<>>

(* ------------------------------ handlers ------------------------------ *)

\* handleConnectGoogleDrive, once googleDriveService.connect() has resolved
HandleConnectGoogleDrive ==
    \E success \in BOOLEAN :
        LET s == Render([State EXCEPT !.isGoogleDriveConnected = success], FALSE)
        IN  Apply(s, Event("handler", NoClient, <<>>, NoFailure, s))

\* handleAddClient(name); ids are distinct creation times
HandleAddClient ==
    \E name \in Names :
        /\ Len(clients) < MaxClients
        /\ Trim(name) # <<>>
        /\ LET newClient == [id |-> Len(clients) + 1, name |-> name, files |-> <<>>,
                             apiKey |-> Len(clients) + 1,
                             googleDriveFolderUrl |-> <<>>]
               s == Render([State EXCEPT !.clients = Append(@, newClient),
                                         !.selectedClientId = newClient.id], FALSE)
           IN  Apply(s, Event("handler", NoClient, <<>>, NoFailure, s))

\* handleSelectClient(id)
HandleSelectClient ==
    \E i \in 1..Len(clients) :
        LET s == Render([State EXCEPT !.selectedClientId = clients[i].id], FALSE)
        IN  Apply(s, Event("handler", NoClient, <<>>, NoFailure, s))

\* handleSetFolderUrl(clientId, url)
HandleSetFolderUrl ==
    \E i \in 1..Len(clients), url \in FolderUrls :
        LET s == Render([State EXCEPT !.clients = SetFolderUrl(@, clients[i].id, url)],
                        clients[i].id = selectedClientId)
        IN  Apply(s, Event("handler", NoClient, <<>>, NoFailure, s))

\* setFileSearchApiKey(key), passed to Settings
SetFileSearchApiKey ==
    \E key \in ApiKeys :
        /\ key # fileSearchApiKey
        /\ LET s == Render([State EXCEPT !.fileSearchApiKey = key], FALSE)
           IN  Apply(s, Event("handler", NoClient, <<>>, NoFailure, s))

\* one firing of window.setInterval(syncAndPoll, 5000)
Tick ==
    \E cl \in timers :
        LET s == SyncAndPoll(State, cl)
        IN  Apply(s, Event("tick", NoClient, <<>>, NoFailure, s))

(* ------------------- syncAndPoll after its awaits --------------------- *)

\* lines 74-94: the listing resolved to driveFiles
OnFetched(s, c, driveFiles) ==
    IF ChangeDetected(c.files, driveFiles)
    THEN [s EXCEPT !.clients = SetFiles(@, c.id, Placeholder(driveFiles)),
                   !.index = TRUE,
                   !.base = c.files,
                   !.cycles = Finished(@, c) (+)
                              SetToBag({[c EXCEPT !.pc = "awaitSync",
                                                  !.driveFiles = driveFiles,
                                                  !.seq = 1 + Listed(s.cycles)]})]
    ELSE [s EXCEPT !.isSyncing = FALSE,
                   !.base = c.files,
                   !.cycles = Finished(@, c)]

\* a catch block that also writes back the files the cycle closed over
OnError_RestoresFiles(s, c, e) ==
    [s EXCEPT !.syncError = ErrorMessage(e),
              !.isSyncing = FALSE,
              !.clients = SetFiles(@, c.id, c.files),
              !.base = c.files,
              !.seq = c.seq,
              !.cycles = Finished(@, c)]

\* a catch block with no finally block after it
OnError_KeepsSyncing(s, c, e) ==
    [s EXCEPT !.syncError = ErrorMessage(e),
              !.base = c.files,
              !.seq = c.seq,
              !.cycles = Finished(@, c)]

\* lines 95-100: a collaborator call rejected with e
OnError(s, c, e) ==
    [s EXCEPT !.syncError = ErrorMessage(e),
              !.isSyncing = FALSE,
              !.base = c.files,
              !.seq = c.seq,
              !.cycles = Finished(@, c)]

\* a commit addressed to the selected client instead of the captured one
OnIndexed_ToSelected(s, c, indexedFiles) ==
    [s EXCEPT !.clients = SetFiles(@, s.selectedClientId, indexedFiles),
              !.isSyncing = FALSE,
              !.base = c.files,
              !.seq = c.seq,
              !.cycles = Finished(@, c)]

\* a commit that appends to the stored files instead of replacing them
OnIndexed_Appends(s, c, indexedFiles) ==
    [s EXCEPT !.clients = SetFiles(@, c.id, FilesOf(s.clients, c.id) \o indexedFiles),
              !.isSyncing = FALSE,
              !.base = c.files,
              !.seq = c.seq,
              !.cycles = Finished(@, c)]

\* lines 89-91 and 98-100: the index sync resolved to indexedFiles
OnIndexed(s, c, indexedFiles) ==
    [s EXCEPT !.clients = SetFiles(@, c.id, indexedFiles),
              !.isSyncing = FALSE,
              !.base = c.files,
              !.seq = c.seq,
              !.cycles = Finished(@, c)]

\* googleDriveService.getFilesFromFolder resolves to a listing among those
FetchFrom(listings) ==
    \E c \in BagToSet(cycles), driveFiles \in listings :
        /\ c.pc = "awaitFetch"
        /\ LET changed == ChangeDetected(c.files, driveFiles)
               s == Render(OnFetched(State, c, driveFiles),
                           changed /\ c.id = selectedClientId)
           IN  Apply(s, Event("fetchOk", c.id, driveFiles, NoFailure, s))

FetchOk == FetchFrom(Snapshots)

\* googleDriveService.getFilesFromFolder rejects
FetchFail ==
    \E c \in BagToSet(cycles), e \in Failures :
        /\ c.pc = "awaitFetch"
        /\ LET s == Render(OnError(State, c, e), FALSE)
           IN  Apply(s, Event("fetchFail", c.id, <<>>, e, s))

\* fileSearchService.syncClientFiles resolves
SyncOk ==
    \E c \in BagToSet(cycles) :
        /\ c.pc = "awaitSync"
        /\ \E indexedFiles \in IndexResults(c.driveFiles) :
            LET s == Render(OnIndexed(State, c, indexedFiles), c.id = selectedClientId)
            IN  Apply(s, Event("syncOk", c.id, c.driveFiles, NoFailure, s))

\* fileSearchService.syncClientFiles rejects
SyncFail ==
    \E c \in BagToSet(cycles), e \in Failures :
        /\ c.pc = "awaitSync"
        /\ LET s == Render(OnError(State, c, e), FALSE)
           IN  Apply(s, Event("syncFail", c.id, c.driveFiles, e, s))

Next ==
    \/ FetchOk
    \/ FetchFail
    \/ SyncOk
    \/ SyncFail
    \/ HandleConnectGoogleDrive
    \/ HandleAddClient
    \/ HandleSelectClient
    \/ HandleSetFolderUrl
    \/ SetFileSearchApiKey
    \/ Tick

Spec == Init /\ [][Next]_vars

(* ---------------- change detection over more listings ----------------- *)

DetectIds == {<<"a">>, <<"a", "b">>}
DetectContents == {<<"c">>, <<"b", "c">>}
DetectFiles == [id : DetectIds, content : DetectContents]
DetectSnapshots == UNION {[1..n -> DetectFiles] : n \in 0..MaxFiles}

AllIndexed(driveFiles) == IndexResult(driveFiles, [i \in 1..Len(driveFiles) |-> "indexed"])

\* A connected, keyed session whose one client holds the committed result of
\* an earlier listing, just after the timer started a cycle for it.
InitDetect ==
    \E stored \in DetectSnapshots :
        LET c == [id |-> 1, name |-> <<"n">>, files |-> AllIndexed(stored),
                  apiKey |-> 1, googleDriveFolderUrl |-> << <<"u">> >>]
            cl == [selectedClient |-> <<c>>, isGoogleDriveConnected |-> TRUE,
                   fileSearchApiKey |-> <<"k">>]
        IN  /\ clients = <<c>>
            /\ selectedClientId = 1
            /\ fileSearchApiKey = <<"k">>
            /\ isGoogleDriveConnected = TRUE
            /\ isSyncing = TRUE
            /\ syncError = Null
            /\ pollingIntervalRef = <<cl>>
            /\ timers = {cl}
            /\ cycles = SetToBag({Cycle(c)})
            /\ event = [op |-> "tick", cid |-> NoClient, snap |-> <<>>,
                        err |-> NoFailure, drive |-> TRUE, index |-> FALSE,
                        base |-> <<>>, seq |-> 0]
            /\ everConnected = TRUE
            /\ lastSyncFailure = <<>>

FetchDetect == FetchFrom(DetectSnapshots)

NextDetect == FetchDetect

SpecDetect == InitDetect /\ [][NextDetect]_vars

(* ------------------------------ claims -------------------------------- *)

\* the (id, content) pairs of a file sequence, in order
Pairs(files) == [i \in 1..Len(files) |-> <<files[i].id, files[i].content>>]

ClientIds == {clients[i].id : i \in 1..Len(clients)}

\* the syncAndPoll invocations in flight for one client
InFlight(id) ==
    LET S == {c \in BagToSet(cycles) : c.id = id}
    IN  BagCardinality([c \in S |-> cycles[c]])

\* the invocations suspended at syncClientFiles
AwaitingSync(cs) ==
    LET S == {c \in BagToSet(cs) : c.pc = "awaitSync"}
    IN  [c \in S |-> cs[c]]

\* what the catch block stores for a thrown value
CaughtMessage(e) ==
    IF e.isError THEN e.message ELSE "An unknown error occurred during sync."

\* C1: single-flight: in every reachable state at most one reconciliation
\* cycle is in flight for a given client.
C1_SingleFlight == \A id \in ClientIds : InFlight(id) <= 1

C3_FetchFailureLeavesFiles ==
    [][event'.op = "fetchFail"
        => /\ clients' = clients
           /\ AwaitingSync(cycles') = AwaitingSync(cycles)
           /\ ~event'.index
           /\ syncError' = CaughtMessage(event'.err)]_vars

C3_Witness ==
    /\ event.op = "fetchFail"
    /\ syncError = "quota exceeded"
    /\ \E id \in ClientIds : FilesOf(clients, id) # <<>>

\* C4 (as claimed): when the index sync fails, syncError is the failure's
\* message and the client's files are the placeholder sequence of the
\* optimistic step; from then on they change only when a cycle that succeeds
\* overwrites them, so at the next failed sync for that client with no commit
\* in between they are still what the earlier failure left.
C4_PlaceholdersStayUntilSuccess ==
    [][event'.op = "syncFail"
        => /\ syncError' = CaughtMessage(event'.err)
           /\ FilesOf(clients', event'.cid) = Placeholder(event'.snap)
           /\ (lastSyncFailure # <<>> /\ lastSyncFailure[1].cid = event'.cid)
                => FilesOf(clients', event'.cid) = lastSyncFailure[1].files]_vars

\* C4 (amended): when the index sync fails, syncError is the failure's message
\* and the failure writes nothing: every client's files are what they were
\* just before it, so placeholders are not restored to the committed sequence.
C4_SyncFailureDoesNotRollBack ==
    [][event'.op = "syncFail"
        => /\ syncError' = CaughtMessage(event'.err)
           /\ clients' = clients]_vars

C4_Witness ==
    /\ event.op = "syncFail"
    /\ syncError = "quota exceeded"
    /\ FilesOf(clients, event.cid) = Placeholder(<<FileX>>)

\* C5: idempotence: when two consecutive cycles for one client fetch the same
\* remote snapshot, the second writes no files and makes no index sync call.
C5_SecondFetchWritesNothing ==
    [][(/\ event.op = "fetchOk"
        /\ event'.op = "fetchOk"
        /\ event'.cid = event.cid
        /\ event'.snap = event.snap)
        => (clients' = clients /\ ~event'.index)]_vars

\* C6: change detection is complete: whenever the stored files and the
\* fetched listing differ in at least one (id, content) pair, the cycle
\* detects the change and writes the client's files.
C6_ChangeDetectionComplete ==
    [][(/\ event'.op = "fetchOk"
        /\ Pairs(FilesOf(clients, event'.cid)) # Pairs(event'.snap))
        => /\ event'.index
           /\ FilesOf(clients', event'.cid) = Placeholder(event'.snap)]_vars

\* C7: status monotonicity: no commit takes a file directly from one final
\* status (indexed, error) to the other without a 'syncing' state in between.
C7_NoFinalToFinal ==
    [][event'.op = "syncOk"
        => \A i \in 1..Len(clients) :
             \A j \in 1..Len(clients[i].files), k \in 1..Len(clients'[i].files) :
                (/\ clients[i].files[j].id = clients'[i].files[k].id
                 /\ clients[i].files[j].status \in FinalStatuses
                 /\ clients'[i].files[k].status \in FinalStatuses)
                => clients'[i].files[k].status = clients[i].files[j].status]_vars

\* C8: wholesale replacement: each client's files are the empty initial
\* sequence, the full placeholder image of one remote snapshot, or one
\* sequence returned by one index sync call.
C8_WholesaleReplacement ==
    \A i \in 1..Len(clients) :
        \/ clients[i].files = <<>>
        \/ \E s \in Snapshots : clients[i].files = Placeholder(s)
        \/ \E s \in Snapshots : clients[i].files \in IndexResults(s)

C8_Witness ==
    /\ event.op = "syncOk"
    /\ \E i \in 1..Len(clients) : clients[i].files \in IndexResults(<<FileX>>)
    /\ \E i \in 1..Len(clients) : clients[i].files = Placeholder(<<FileX>>)

\* C9: whenever an activation condition is false (no client selected, Drive
\* not connected, credential blank, selected client without folder), no
\* periodic timer is armed and isSyncing is false.
C9_IdleWhenNotActivated ==
    ~Activated(Closure(State)) => (timers = {} /\ ~isSyncing)

\* C10: no task calls the Drive listing while the Drive-connected flag is
\* false, and isSyncing is false as long as the flag has never been true.
C10_NoDriveWithoutConnectivity ==
    /\ event.drive => isGoogleDriveConnected
    /\ ~everConnected => ~isSyncing

C10_Witness ==
    /\ ~isGoogleDriveConnected
    /\ ~everConnected
    /\ event.op = "tick"
    /\ ~event.drive
    /\ Trim(fileSearchApiKey) # <<>>

\* C11: a cycle whose client is no longer the selected one surfaces nothing:
\* when its pending collaborator call fails or succeeds, syncError and
\* isSyncing are what they were before.
C11_CancelledCycleSurfacesNothing ==
    [][(event'.op \in {"fetchOk", "fetchFail", "syncOk", "syncFail"}
        /\ event'.cid # selectedClientId)
        => /\ syncError' = syncError
           /\ isSyncing' = isSyncing]_vars

\* The first fetch to resolve after an index-sync failure, for a cycle that a
\* timer tick started after the failure: the failure left the client's files
\* as the placeholders of the snapshot it fetched, they are untouched since,
\* and the ticked cycle is the only one in flight.
FetchAfterFailedSync ==
    /\ lastSyncFailure # <<>>
    /\ lastSyncFailure[1].files = Placeholder(lastSyncFailure[1].snap)
    /\ event.op = "tick"
    /\ event.drive
    /\ BagCardinality(cycles) = 1
    /\ event'.op = "fetchOk"
    /\ event'.cid = lastSyncFailure[1].cid
    /\ FilesOf(clients, event'.cid) = lastSyncFailure[1].files

\* C12 (as claimed): a cycle started after a failed index sync compares the
\* remote snapshot against the sequence committed before the failed cycle, so
\* when the remote content is again that sequence it reports no change and
\* writes nothing.
C12_BaselineIsCommittedSnapshot ==
    [][FetchAfterFailedSync
        => /\ event'.base = lastSyncFailure[1].before
           /\ Pairs(event'.snap) = Pairs(lastSyncFailure[1].before)
                => (~event'.index /\ clients' = clients)]_vars

\* C12 (amended): a cycle started after a failed index sync compares the
\* remote snapshot against the placeholders the failed cycle wrote, so it
\* calls the index sync exactly when the remote fingerprint differs from the
\* failed snapshot's, and it reports no change when the remote content is
\* still the failed snapshot.
C12_BaselineIsFailedSnapshot ==
    [][FetchAfterFailedSync
        => /\ event'.base = lastSyncFailure[1].files
           /\ event'.index
                <=> Fingerprint(event'.snap) # Fingerprint(lastSyncFailure[1].snap)
           /\ event'.snap = lastSyncFailure[1].snap => clients' = clients]_vars

C12_Witness ==
    /\ lastSyncFailure # <<>>
    /\ lastSyncFailure[1].files = Placeholder(<<FileX>>)
    /\ lastSyncFailure[1].before = <<>>
    /\ event.op = "fetchOk"
    /\ event.cid = lastSyncFailure[1].cid
    /\ event.base = lastSyncFailure[1].files
    /\ event.snap = <<>>
    /\ event.index
    /\ BagCardinality(cycles) = 1

\* C13: recovery by polling: after an index-sync failure left a client in the
\* 'syncing' placeholders, while the activation conditions hold and the remote
\* snapshot is the one whose sync failed, a cycle started by a later timer
\* tick calls the index sync again.
C13_LaterCycleRetriesIndexSync ==
    [][(/\ FetchAfterFailedSync
        /\ lastSyncFailure[1].files # <<>>
        /\ Activated(Closure(State))
        /\ event'.snap = lastSyncFailure[1].snap)
        => event'.index]_vars

\* C14: commit clears the error: in the state immediately after a cycle
\* commits the index sync's result, syncError is null.
C14_CommitClearsError ==
    [][event'.op = "syncOk" => syncError' = Null]_vars

\* b holds the files of a in another order
Reordered(a, b) ==
    /\ Len(a) = Len(b)
    /\ a # b
    /\ \E p \in Permutations(1..Len(a)) : \A i \in 1..Len(a) : b[i] = a[p[i]]

\* C15: order sensitivity: when the fetched snapshot holds the same
\* (id, content) pairs as the stored files in a different order, the
\* fingerprints differ and the comparison reports a change.
C15_ReorderingDetected ==
    [][(event'.op = "fetchOk" /\ Reordered(Pairs(event'.base), Pairs(event'.snap)))
        => /\ Fingerprint(event'.base) # Fingerprint(event'.snap)
           /\ event'.index]_vars

\* C16: isSyncing covers the cycle: while the activation conditions hold and a
\* cycle for the selected client is in flight, isSyncing is true.
C16_SyncingWhileInFlight ==
    (Activated(Closure(State)) /\ InFlight(selectedClientId) > 0)
        => isSyncing

\* C17: isSyncing is false when quiescent: in every reachable state in which
\* no syncAndPoll invocation is in flight, isSyncing is false.
C17_IdleWhenQuiescent == cycles = EmptyBag => ~isSyncing

C17_Witness ==
    /\ cycles = EmptyBag
    /\ ~isSyncing
    /\ event.op = "syncFail"
    /\ event.cid # selectedClientId
    /\ \E i \in 1..Len(clients) : clients[i].files # <<>>

\* C18: commits are not reordered: when a cycle commits right after a commit,
\* for the same client, of a cycle whose listing was fetched later than its
\* own, it does not overwrite the files that commit wrote.
C18_OlderListingDoesNotOverwrite ==
    [][(/\ event.op = "syncOk"
        /\ event'.op = "syncOk"
        /\ event'.cid = event.cid
        /\ event'.seq < event.seq)
        => FilesOf(clients', event'.cid) = FilesOf(clients, event.cid)]_vars

\* C19: writes are confined to the captured client: a step of a cycle changes
\* at most the files field of the client whose id the cycle captured; every
\* other client, and every client's id, name, apiKey and folder reference,
\* is unchanged, and so is the set of clients in the registry.
C19_WritesConfinedToCapturedClient ==
    [][event'.op \in {"fetchOk", "fetchFail", "syncOk", "syncFail"}
        => /\ Len(clients') = Len(clients)
           /\ \A i \in 1..Len(clients) :
                IF clients[i].id = event'.cid
                THEN clients'[i] = [clients[i] EXCEPT !.files = clients'[i].files]
                ELSE clients'[i] = clients[i]]_vars

C19_Witness ==
    /\ event.op = "fetchOk"
    /\ event.index
    /\ FilesOf(clients, event.cid) = Placeholder(<<FileX>>)
    /\ \E i \in 1..Len(clients) :
          /\ clients[i].id # event.cid
          /\ clients[i].files \in IndexResults(<<FileX>>)

\* C20: at most one periodic timer: in every reachable state at most one
\* interval is armed, it is the one pollingIntervalRef holds, and its callback
\* closed over the current selected client record, with its current files,
\* and the current connectivity flag and credential.
C20_OneCurrentTimer ==
    /\ Cardinality(timers) <= 1
    /\ \A cl \in timers :
          /\ pollingIntervalRef = <<cl>>
          /\ cl = Closure(State)

C20_Witness ==
    /\ timers # {}
    /\ event.op = "syncOk"
    /\ event.cid = selectedClientId
    /\ cycles # EmptyBag
    /\ FilesOf(clients, selectedClientId) \in IndexResults(<<FileX>>)

====
